---- MODULE Spec2Model ----
(***************************************************************************)
(* Model of export-all.py: the hourly leaderboard update.                  *)
(*                                                                         *)
(* Strings are sequences of one-character strings, so that the regular     *)
(* expressions, split/join, replace and the string order used by sorted()  *)
(* are computed and not assumed.  A numeric file is a sequence of lines;   *)
(* a line is a separator and its cells; a cell is a number or Text (text   *)
(* that float() rejects).                                                  *)
(*                                                                         *)
(* A result that is used several times is bound once as the element of a  *)
(* one-element set, CHOOSE r \in {F(x) : x \in {e}} : TRUE, which is F(e). *)
(***************************************************************************)
EXTENDS Integers, Sequences, FiniteSets, TLC

(* ------------------------------------------------------------------ *)
(* Bounds of the model                                                 *)
(* ------------------------------------------------------------------ *)
MaxFiles == 2
MaxLen == 3
MaxVal == 2
MaxCopied == 1

(* ------------------------------------------------------------------ *)
(* Program constants                                                   *)
(* ------------------------------------------------------------------ *)
NormalSleep == 3600
ErrorSleep == 300
ENABLE_GIT_PUSH == TRUE

(* ------------------------------------------------------------------ *)
(* Characters and strings                                              *)
(* ------------------------------------------------------------------ *)
Digits == {"0", "1", "2", "3", "4", "5", "6", "7", "8", "9"}

\* The characters the model uses, in code point order (the order of str <).
CodeOrder ==
  << ".", "/", "0", "1", "2", "3", "4", "5", "6", "7", "8", "9",
     "A", "B", "C", "D", "E", "F", "G", "H", "I", "J", "K", "L", "M",
     "N", "O", "P", "Q", "R", "S", "T", "U", "V", "W", "X", "Y", "Z",
     "\\", "_",
     "a", "b", "c", "d", "e", "f", "g", "h", "i", "j", "k", "l", "m",
     "n", "o", "p", "q", "r", "s", "t", "u", "v", "w", "x", "y", "z" >>

OrdOf == [c \in {CodeOrder[i] : i \in 1..Len(CodeOrder)} |->
            CHOOSE i \in 1..Len(CodeOrder) : CodeOrder[i] = c]

\* ord(c), as a position in CodeOrder
Ord(c) == OrdOf[c]

\* str.lower() on one character.
Lower(c) ==
  LET i == Ord(c) IN IF i >= Ord("A") /\ i <= Ord("Z") THEN CodeOrder[i + 28] ELSE c

LowerStr(s) == [i \in 1..Len(s) |-> Lower(s[i])]

\* s < t on Python strings: lexicographic by code point.
StrLess(s, t) ==
  \E i \in 1..Len(t) :
     /\ i <= Len(s) + 1
     /\ \A k \in 1..(i - 1) : s[k] = t[k]
     /\ (i = Len(s) + 1 \/ Ord(s[i]) < Ord(t[i]))

\* sorted(S) for a set S of strings.
RECURSIVE SortedStrs(_)
SortedStrs(S) ==
  IF S = {} THEN << >>
  ELSE CHOOSE sorted \in {<< m >> \o SortedStrs(S \ {m}) :
                            m \in {x \in S : \A y \in S \ {x} : StrLess(x, y)}} : TRUE

\* s.split(sep)
RECURSIVE Split(_, _)
Split(s, sep) ==
  IF \A i \in 1..Len(s) : s[i] # sep THEN << s >>
  ELSE LET i == CHOOSE j \in 1..Len(s) :
                   s[j] = sep /\ \A k \in 1..(j - 1) : s[k] # sep
       IN << SubSeq(s, 1, i - 1) >> \o Split(SubSeq(s, i + 1, Len(s)), sep)

\* sep.join(parts)
RECURSIVE Join(_, _)
Join(parts, sep) ==
  IF Len(parts) = 0 THEN << >>
  ELSE IF Len(parts) = 1 THEN parts[1]
  ELSE parts[1] \o << sep >> \o Join(Tail(parts), sep)

\* s.replace(a, b) for single characters
Replace(s, a, b) == [i \in 1..Len(s) |-> IF s[i] = a THEN b ELSE s[i]]

DigitVal(c) == Ord(c) - Ord("0")

\* int(s) for a string of digits
RECURSIVE ToInt(_)
ToInt(s) ==
  IF Len(s) = 0 THEN 0
  ELSE 10 * ToInt(SubSeq(s, 1, Len(s) - 1)) + DigitVal(s[Len(s)])

\* str(n) for n >= 0
RECURSIVE IntToStr(_)
IntToStr(n) ==
  IF n < 10 THEN << CodeOrder[Ord("0") + n] >>
  ELSE IntToStr(n \div 10) \o << CodeOrder[Ord("0") + (n % 10)] >>

\* The end of the longest run of digits of s that starts at i (i - 1: none).
DigitRunEnd(s, i) ==
  CHOOSE j \in (i - 1)..Len(s) :
     /\ \A k \in i..j : s[k] \in Digits
     /\ (j = Len(s) \/ s[j + 1] \notin Digits)

PFX == << "P", "A", "R", "T", "I", "C", "I", "P", "A", "N", "T", "_" >>
SUBM == << "S", "u", "b", "m", "i", "s", "s", "i", "o", "n", "s" >>
RESLOW == << "r", "e", "s", "u", "l", "t", "s", "_" >>
CSVLOW == << ".", "c", "s", "v" >>
SUBTAG == << "_", "S", "u", "b" >>
SOLUTION == << "s", "o", "l", "u", "t", "i", "o", "n" >>

\* PART_REGEX.fullmatch(seg): PARTICIPANT_ and one to three digits.
PART_REGEX(seg) ==
  /\ Len(seg) >= Len(PFX) + 1
  /\ Len(seg) <= Len(PFX) + 3
  /\ SubSeq(seg, 1, Len(PFX)) = PFX
  /\ \A i \in (Len(PFX) + 1)..Len(seg) : seg[i] \in Digits

(* ------------------------------------------------------------------ *)
(* Values: None, numpy arrays, scores                                  *)
(* ------------------------------------------------------------------ *)
NoneVal == [kind |-> "none", v |-> << >>]
Raised == [kind |-> "raise", v |-> << >>]
Vec(s) == [kind |-> "vec", v |-> s]
Scalar(x) == [kind |-> "scalar", v |-> << x >>]
Mat(rows) == [kind |-> "mat", v |-> rows]

RECURSIVE GCD(_, _)
GCD(m, n) == IF n = 0 THEN m ELSE GCD(n, m % n)

\* A score: the mean squared error as a fraction in lowest terms.  sqrt and
\* float division are monotone, so scores order and tie as the RMSE does.
Score(sumsq, n) ==
  LET g == GCD(sumsq, n) IN [kind |-> "rmse", v |-> << sumsq \div g, n \div g >>]

ScoreLess(x, y) == x.v[1] * y.v[2] < y.v[1] * x.v[2]

(* ------------------------------------------------------------------ *)
(* Numeric files                                                       *)
(* ------------------------------------------------------------------ *)
\* A cell that float() rejects.
Text == 0 - 1

Line(sep, cells) == [sep |-> sep, cells |-> cells]

\* The fields of a line under a delimiter: another separator leaves the
\* whole line one field, which is no number unless it is a single cell.
Fields(line, delim) ==
  IF line.sep = delim \/ Len(line.cells) = 1 THEN line.cells ELSE << Text >>

\* The array np.loadtxt (ndmin = 0) makes of the rows it has read: every
\* field a number and every row as long as the first, else ValueError; the
\* result is squeezed, and no rows at all give an empty one-dimensional array.
Squeezed(rows) ==
  LET r == Len(rows)
      ok == \A i \in 1..r :
               /\ Len(rows[i]) = Len(rows[1])
               /\ \A j \in 1..Len(rows[i]) : rows[i][j] # Text
  IN IF ~ok THEN Raised
     ELSE IF r = 0 THEN Vec(<< >>)
     ELSE IF r = 1 /\ Len(rows[1]) = 1 THEN Scalar(rows[1][1])
     ELSE IF r = 1 THEN Vec(rows[1])
     ELSE IF Len(rows[1]) = 1 THEN Vec([i \in 1..r |-> rows[i][1]])
     ELSE Mat(rows)

\* np.loadtxt(path, delimiter=delim, skiprows=skip)
LoadTxt(file, delim, skip) ==
  CHOOSE arr \in
    {Squeezed(rows) :
       rows \in {[i \in 1..(IF Len(file) > skip THEN Len(file) - skip ELSE 0) |->
                    Fields(file[i + skip], delim)]}} : TRUE

\* The four nested attempts of load_numeric_file, first success wins.
FirstParse(file) ==
  LET a1 == LoadTxt(file, ",", 1)
      a2 == LoadTxt(file, " ", 1)
      a3 == LoadTxt(file, ",", 0)
      a4 == LoadTxt(file, " ", 0)
  IN IF a1 # Raised THEN a1
     ELSE IF a2 # Raised THEN a2
     ELSE IF a3 # Raised THEN a3
     ELSE a4

\* arr.flatten()
RECURSIVE Flatten(_)
Flatten(rows) == IF Len(rows) = 0 THEN << >> ELSE rows[1] \o Flatten(Tail(rows))

\* What load_numeric_file makes of the parsed array: of two dimensions the
\* second column, or all of it flattened if it has one column only.
OneDimension(arr) ==
  IF arr = Raised THEN NoneVal
  ELSE IF arr.kind = "mat"
       THEN IF Len(arr.v[1]) >= 2
            THEN Vec([i \in 1..Len(arr.v) |-> arr.v[i][2]])
            ELSE Vec(Flatten(arr.v))
       ELSE arr

load_numeric_file(file) ==
  CHOOSE result \in {OneDimension(arr) : arr \in {FirstParse(file)}} : TRUE

\* sum((a2 - b2) ** 2) over the first n elements
RECURSIVE SumSq(_, _, _)
SumSq(a, b, n) ==
  IF n = 0 THEN 0 ELSE SumSq(a, b, n - 1) + (a[n] - b[n]) * (a[n] - b[n])

Min(m, n) == IF m < n THEN m ELSE n

\* compute_rmse keeping the last L elements of the longer argument.
compute_rmse_tail(a, b) ==
  IF a = NoneVal \/ b = NoneVal THEN NoneVal
  ELSE IF a.kind = "scalar" \/ b.kind = "scalar" THEN Raised
  ELSE LET la == Len(a.v)
           lb == Len(b.v)
           L == Min(la, lb)
       IN IF la = 0 \/ lb = 0 THEN NoneVal
          ELSE Score(SumSq(SubSeq(a.v, la - L + 1, la), SubSeq(b.v, lb - L + 1, lb), L), L)

\* len() of a zero-dimensional array raises TypeError.
compute_rmse(a, b) ==
  IF a = NoneVal \/ b = NoneVal THEN NoneVal
  ELSE IF a.kind = "scalar" \/ b.kind = "scalar" THEN Raised
  ELSE LET la == Len(a.v)
           lb == Len(b.v)
           L == Min(la, lb)
       IN IF la = 0 \/ lb = 0 THEN NoneVal
          ELSE Score(SumSq(SubSeq(a.v, 1, L), SubSeq(b.v, 1, L), L), L)

(* ------------------------------------------------------------------ *)
(* File names                                                          *)
(* ------------------------------------------------------------------ *)
NoMatch == [id |-> << >>, num |-> -1]

\* parse_submission_filename with the two groups exchanged.
parse_groups_swapped(fname) ==
  LET n == Len(fname)
      low == LowerStr(fname)
      e1 == DigitRunEnd(fname, Len(RESLOW) + 1)
      e2 == DigitRunEnd(fname, e1 + 2)
  IN IF /\ n >= Len(RESLOW)
        /\ SubSeq(low, 1, Len(RESLOW)) = RESLOW
        /\ e1 >= Len(RESLOW) + 1
        /\ e1 + 1 <= n
        /\ fname[e1 + 1] = "_"
        /\ e2 >= e1 + 2
        /\ n >= e2 + Len(CSVLOW)
        /\ SubSeq(low, e2 + 1, e2 + Len(CSVLOW)) = CSVLOW
     THEN [id |-> SubSeq(fname, e1 + 2, e2),
           num |-> ToInt(SubSeq(fname, Len(RESLOW) + 1, e1))]
     ELSE NoMatch

\* re.match(r"Results_(\d+)_(\d+)\.csv", fname, re.IGNORECASE): anchored at
\* the start of fname only.
parse_submission_filename(fname) ==
  LET n == Len(fname)
      low == LowerStr(fname)
      e1 == DigitRunEnd(fname, Len(RESLOW) + 1)
      e2 == DigitRunEnd(fname, e1 + 2)
  IN IF /\ n >= Len(RESLOW)
        /\ SubSeq(low, 1, Len(RESLOW)) = RESLOW
        /\ e1 >= Len(RESLOW) + 1
        /\ e1 + 1 <= n
        /\ fname[e1 + 1] = "_"
        /\ e2 >= e1 + 2
        /\ n >= e2 + Len(CSVLOW)
        /\ SubSeq(low, e2 + 1, e2 + Len(CSVLOW)) = CSVLOW
     THEN [id |-> SubSeq(fname, Len(RESLOW) + 1, e1),
           num |-> ToInt(SubSeq(fname, e1 + 2, e2))]
     ELSE NoMatch

(* ------------------------------------------------------------------ *)
(* The local tree under LOCAL_ROOT                                     *)
(*   dirs:  the directories, each the sequence of its path segments    *)
(*   files: the files in os.listdir order, [dir, name, content]        *)
(* ------------------------------------------------------------------ *)
\* os.path.join on Windows paths
PathStr(segs) == Join(segs, "\\")

\* os.path.basename
BaseName(path) == LET parts == Split(path, "\\") IN parts[Len(parts)]

\* os.walk visits every directory; the matches are sorted as strings.
find_local_participants(dirs) ==
  SortedStrs({PathStr(d) : d \in {e \in dirs : Len(e) > 0 /\ PART_REGEX(e[Len(e)])}})

\* The files of one directory, in listing order.
ListDir(files, dir) == SelectSeq(files, LAMBDA f : f.dir = dir)

\* load_solutions: every file of the solution directory that loads, in
\* listing order; no directory, no solutions.
load_solutions(dirs, files) ==
  IF << SOLUTION >> \notin dirs THEN << >>
  ELSE LET listed == ListDir(files, << SOLUTION >>)
           arrs == [i \in 1..Len(listed) |->
                      [name |-> listed[i].name, arr |-> load_numeric_file(listed[i].content)]]
       IN SelectSeq(arrs, LAMBDA x : x.arr # NoneVal)

\* The files the two loops of evaluate_participants visit, in order.
RECURSIVE Discovered(_, _, _)
Discovered(participants, dirs, files) ==
  IF Len(participants) = 0 THEN << >>
  ELSE LET ppath == participants[1]
           sdir == Split(ppath, "\\") \o << SUBM >>
           here == IF sdir \in dirs
                   THEN [i \in 1..Len(ListDir(files, sdir)) |->
                           [ppath |-> ppath,
                            fname |-> ListDir(files, sdir)[i].name,
                            content |-> ListDir(files, sdir)[i].content]]
                   ELSE << >>
       IN here \o Discovered(Tail(participants), dirs, files)

\* f"PARTICIPANT_{participant_id}_Sub{submission_num}"
SubmissionId(id, num) == PFX \o id \o SUBTAG \o IntToStr(num)

\* The body of the inner loop for one file, given what the name parses to,
\* what the file loads as and its score, on the scan so far:
\* [stats, loaded, raised].
Visit(acc, item, solutions, parsed, part_arr, rmse) ==
  LET seen == [acc EXCEPT !.loaded = Append(@, << item.ppath, item.fname >>)]
  IN IF acc.raised THEN acc
     ELSE IF parsed = NoMatch THEN acc
     ELSE IF Len(solutions) = 0 THEN acc
     ELSE IF part_arr = NoneVal THEN seen
     ELSE IF rmse = Raised THEN [seen EXCEPT !.raised = TRUE]
     ELSE IF rmse = NoneVal THEN seen
     ELSE [seen EXCEPT !.stats = Append(@,
             [submission_id |-> SubmissionId(parsed.id, parsed.num),
              participant |-> BaseName(item.ppath),
              participant_id |-> parsed.id,
              submission_num |-> parsed.num,
              rmse |-> rmse,
              file |-> item.fname,
              solution_file |-> solutions[1].name,
              participant_path |-> item.ppath])]

\* One pass of the inner loop.
ScanStep(acc, item, solutions) ==
  CHOOSE result \in
    {Visit(acc, item, solutions, parsed, part_arr,
           IF Len(solutions) = 0 THEN NoneVal
           ELSE compute_rmse(solutions[1].arr, part_arr)) :
       parsed \in {parse_submission_filename(item.fname)},
       part_arr \in {load_numeric_file(item.content)}} : TRUE

\* The loops over all items: the passes one after the other.
RECURSIVE Scan(_, _)
Scan(items, solutions) ==
  IF Len(items) = 0 THEN [stats |-> << >>, loaded |-> << >>, raised |-> FALSE]
  ELSE CHOOSE result \in
         {ScanStep(acc, items[Len(items)], solutions) :
            acc \in {Scan(SubSeq(items, 1, Len(items) - 1), solutions)}} : TRUE

\* An insertion in front of the elements that are equal (not stable).
InsertPosFront(sorted, x) ==
  CHOOSE k \in 0..Len(sorted) :
     /\ \A i \in 1..k : ScoreLess(sorted[i].rmse, x.rmse)
     /\ (k = Len(sorted) \/ ~ScoreLess(sorted[k + 1].rmse, x.rmse))

\* Where sorted() puts x in a sorted list: behind every element that is not
\* greater (stable).
InsertPos(sorted, x) ==
  CHOOSE k \in 0..Len(sorted) :
     /\ \A i \in 1..k : ~ScoreLess(x.rmse, sorted[i].rmse)
     /\ (k = Len(sorted) \/ ScoreLess(x.rmse, sorted[k + 1].rmse))

InsertAt(sorted, x, k) ==
  SubSeq(sorted, 1, k) \o << x >> \o SubSeq(sorted, k + 1, Len(sorted))

\* sorted(submission_stats, key=lambda x: x["rmse"])
RECURSIVE SortedByRmse(_)
SortedByRmse(stats) ==
  IF Len(stats) = 0 THEN << >>
  ELSE CHOOSE result \in
         {InsertAt(front, stats[Len(stats)], InsertPos(front, stats[Len(stats)])) :
            front \in {SortedByRmse(SubSeq(stats, 1, Len(stats) - 1))}} : TRUE

\* The rows of rmse_ranking.csv under its header.
RankRows(ranked) ==
  [i \in 1..Len(ranked) |->
     [Rank |-> i,
      Submission_ID |-> ranked[i].submission_id,
      Participant_ID |-> ranked[i].participant_id,
      Submission_Num |-> ranked[i].submission_num,
      RMSE |-> ranked[i].rmse,
      Filename |-> ranked[i].file,
      Pfad |-> ranked[i].participant_path]]

NoFile == [exists |-> FALSE, rows |-> << >>]
FileOf(rows) == [exists |-> TRUE, rows |-> rows]

\* The two loops of evaluate_participants over the tree.
ScanTree(solutions, dirs, files) ==
  CHOOSE result \in
    {Scan(items, solutions) :
       items \in {Discovered(participants, dirs, files) :
                    participants \in {find_local_participants(dirs)}}} : TRUE

\* The rest of evaluate_participants after its loops, given their result:
\* what it returns (ret: "none" for the bare return, "empty" for
\* ({}, summary), "stats", "raise" for an exception that leaves it), and the
\* two output files after it.  sumOK / rankOK: whether the write of that
\* file goes through (an exception in it is caught and logged).
FinishEvaluate(scan, dirs, oldSummary, oldRank, sumOK, rankOK) ==
  LET keep == [stats |-> scan.stats, loaded |-> scan.loaded,
               summaryFile |-> oldSummary, rankFile |-> oldRank]
  IN IF Len(find_local_participants(dirs)) = 0
     THEN [keep EXCEPT !.stats = << >>, !.loaded = << >>] @@ [ret |-> "none"]
     ELSE IF scan.raised THEN keep @@ [ret |-> "raise"]
     ELSE IF Len(scan.stats) = 0 THEN keep @@ [ret |-> "empty"]
     ELSE [keep EXCEPT
             !.summaryFile = IF sumOK THEN FileOf(scan.stats) ELSE oldSummary,
             !.rankFile = IF rankOK
                          THEN CHOOSE written \in
                                 {FileOf(RankRows(ranked)) :
                                    ranked \in {SortedByRmse(scan.stats)}} : TRUE
                          ELSE oldRank]
          @@ [ret |-> "stats"]

evaluate_participants(solutions, dirs, files, oldSummary, oldRank, sumOK, rankOK) ==
  FinishEvaluate(ScanTree(solutions, dirs, files), dirs, oldSummary, oldRank, sumOK, rankOK)

(* ------------------------------------------------------------------ *)
(* Remote listing and copy                                             *)
(*   The output of rclone lsjson is text that is no JSON ("invalid"),   *)
(*   a JSON value that is no array ("value"), or an array of items: an  *)
(*   object with or without a Path (a string or not), or a number.      *)
(* ------------------------------------------------------------------ *)
ObjPath(p) == [t |-> "obj", hasPath |-> TRUE, pathIsStr |-> TRUE, path |-> p]
ObjNoPath == [t |-> "obj", hasPath |-> FALSE, pathIsStr |-> FALSE, path |-> << >>]
ObjPathNumber == [t |-> "obj", hasPath |-> TRUE, pathIsStr |-> FALSE, path |-> << >>]
Number == [t |-> "num", hasPath |-> FALSE, pathIsStr |-> FALSE, path |-> << >>]
JsonArray(items) == [kind |-> "array", items |-> items]
JsonInvalid == [kind |-> "invalid", items |-> << >>]
JsonValue == [kind |-> "value", items |-> << >>]

\* The list comprehension raises on this item: "Path" in <number> is a
\* TypeError, <number>.replace an AttributeError.
ItemRaises(item) == item.t = "num" \/ (item.hasPath /\ ~item.pathIsStr)

\* get_all_remote_dirs without the test of the exit status.
get_all_remote_dirs_no_rc(rc, out) ==
  IF out.kind # "array" THEN << >>
  ELSE IF \E i \in 1..Len(out.items) : ItemRaises(out.items[i]) THEN << >>
  ELSE LET withPath == SelectSeq(out.items, LAMBDA item : item.hasPath)
       IN [i \in 1..Len(withPath) |-> Replace(withPath[i].path, "\\", "/")]

\* get_all_remote_dirs, given the exit status and the output of the listing.
get_all_remote_dirs(rc, out) ==
  IF rc # 0 THEN << >>
  ELSE IF out.kind # "array" THEN << >>
  ELSE IF \E i \in 1..Len(out.items) : ItemRaises(out.items[i]) THEN << >>
  ELSE LET withPath == SelectSeq(out.items, LAMBDA item : item.hasPath)
       IN [i \in 1..Len(withPath) |-> Replace(withPath[i].path, "\\", "/")]

\* The base of a path: up to its first segment that names a participant.
HasBase(p) == \E i \in 1..Len(Split(p, "/")) : PART_REGEX(Split(p, "/")[i])
BaseOf(p) ==
  LET parts == Split(p, "/")
      i == CHOOSE k \in 1..Len(parts) :
              PART_REGEX(parts[k]) /\ \A m \in 1..(k - 1) : ~PART_REGEX(parts[m])
  IN Join(SubSeq(parts, 1, i), "/")

find_participant_bases(dir_paths) ==
  SortedStrs({BaseOf(dir_paths[i]) : i \in {k \in 1..Len(dir_paths) : HasBase(dir_paths[k])}})

\* f"{base}/Submissions" in dirs_set
HasSubmissions(base, dir_paths) ==
  \E i \in 1..Len(dir_paths) : dir_paths[i] = base \o << "/" >> \o SUBM

\* local_sub of copy_submissions, as path segments under LOCAL_ROOT
LocalSub(base) == Split(base, "/") \o << SUBM >>

\* A directory and the directories above it.
WithParents(d) == {SubSeq(d, 1, k) : k \in 1..Len(d)}

\* What copy_submissions logs for an exit status and the text of the copy.
CopyLog(rc, text) ==
  IF rc = 0 THEN << "copy", "copy_ok" >>
  ELSE IF text = "not found" THEN << "copy", "copy_no_submissions" >>
  ELSE << "copy", "copy_error" >>

\* Where run_update_cycle goes after the copy for bases[idx], whatever the
\* copy did.
AfterCopyBroken(rc, idx, n) ==
  IF rc # 0 THEN "sleep" ELSE IF idx < n THEN "copy" ELSE "load"

AfterCopy(rc, idx, n) == IF idx < n THEN "copy" ELSE "load"

(* ------------------------------------------------------------------ *)
(* Publishing                                                          *)
(* ------------------------------------------------------------------ *)
\* git_push_updates: its return value and its log, given whether the checkout
\* exists, whether the ranking file exists (shutil.copy2), and what git add,
\* git commit and git push do.  commit: "ok", "nothing" (stdout says nothing
\* to commit) or "fail" (another non-zero exit); its status is not examined.
git_push_updates(repoExists, rankExists, addRc, commit, pushRc) ==
  LET notRun == [add |-> "notrun", commit |-> "notrun", push |-> "notrun"]
      added == [notRun EXCEPT !.add = "ok"]
      committed == [added EXCEPT !.commit = commit]
  IN IF ~ENABLE_GIT_PUSH
     THEN [ret |-> "False", log |-> << "push_disabled" >>, copied |-> FALSE, git |-> notRun]
     ELSE IF ~repoExists
     THEN [ret |-> "False", log |-> << "repo_missing" >>, copied |-> FALSE, git |-> notRun]
     ELSE IF ~rankExists
     THEN [ret |-> "False", log |-> << "copy_csv", "push_failed" >>, copied |-> FALSE,
           git |-> notRun]
     ELSE IF addRc # 0
     THEN [ret |-> "False", log |-> << "copy_csv", "git_error" >>, copied |-> TRUE,
           git |-> [notRun EXCEPT !.add = "fail"]]
     ELSE IF commit = "nothing"
     THEN [ret |-> "True", log |-> << "copy_csv", "nothing_to_commit" >>, copied |-> TRUE,
           git |-> committed]
     ELSE IF pushRc # 0
     THEN [ret |-> "False", log |-> << "copy_csv", "git_error" >>, copied |-> TRUE,
           git |-> [committed EXCEPT !.push = "fail"]]
     ELSE [ret |-> "True", log |-> << "copy_csv", "pushed" >>, copied |-> TRUE,
           git |-> [committed EXCEPT !.push = "ok"]]

(* ------------------------------------------------------------------ *)
(* The loop of main                                                    *)
(* ------------------------------------------------------------------ *)
\* time.sleep after a cycle that returned, and after one that raised.
SleepAfter(raised) == IF raised THEN ErrorSleep ELSE NormalSleep

\* Where main is after an exception of a cycle: the handler logs and sleeps.
AfterExceptionBroken == "stopped"

AfterException == "backoff"

(* ------------------------------------------------------------------ *)
(* Names, directories and file contents the model draws from           *)
(* ------------------------------------------------------------------ *)
P7 == PFX \o << "7" >>
P1234 == PFX \o << "1", "2", "3", "4" >>
DirA == << "A" >>

\* Results_7_1.csv
N71 == << "R", "e", "s", "u", "l", "t", "s", "_", "7", "_", "1", ".", "c", "s", "v" >>
\* Results_7_01.csv
N701 == << "R", "e", "s", "u", "l", "t", "s", "_", "7", "_", "0", "1", ".", "c", "s", "v" >>
\* rESULTS_9_2.CSV
N92 == << "r", "E", "S", "U", "L", "T", "S", "_", "9", "_", "2", ".", "C", "S", "V" >>
\* Results_7_3.csv.bak
NBak == << "R", "e", "s", "u", "l", "t", "s", "_", "7", "_", "3", ".", "c", "s", "v",
           ".", "b", "a", "k" >>
\* xResults_7_4.csv
NPre == << "x", "R", "e", "s", "u", "l", "t", "s", "_", "7", "_", "4", ".", "c", "s", "v" >>
\* ref.csv
NRef == << "r", "e", "f", ".", "c", "s", "v" >>
\* alt.csv
NAlt == << "a", "l", "t", ".", "c", "s", "v" >>

AllNames == {N71, N701, N92, NBak, NPre}
WellFormedNames == {N71, N701}

Header == Line(",", << Text >>)
\* a header and the values 1, 2, 3, one per line
FileGoodA == << Header, Line(",", << 1 >>), Line(",", << 2 >>), Line(",", << 3 >>) >>
\* a header and three rows index,value with the values 1, 2, 2
FileGoodB == << Line(",", << Text, Text >>), Line(",", << 0, 1 >>), Line(",", << 1, 2 >>),
                Line(",", << 2, 2 >>) >>
\* prose
FileText == << Line(" ", << Text, Text >>), Line(" ", << Text >>) >>
FileEmpty == << >>
FileHeaderOnly == << Header >>
\* one number and nothing else
FileSingle == << Line(",", << 2 >>) >>
\* a header and one number
FileHeaderSingle == << Header, Line(",", << 2 >>) >>
\* a header, a row of two and a row of one
FileRagged == << Header, Line(",", << 1, 2 >>), Line(",", << 3 >>) >>

ScoredContents == {FileGoodA, FileGoodB, FileText}
AllContents == {FileGoodA, FileGoodB, FileText, FileEmpty, FileHeaderOnly, FileSingle,
                FileHeaderSingle, FileRagged}

\* Local trees: two participant directories with submissions and one
\* directory with a fourth digit; a participant without a Submissions
\* folder; no participant at all.
TreeBoth == { << P7 >>, << P7, SUBM >>, << DirA >>, << DirA, P7 >>, << DirA, P7, SUBM >>,
              << P1234 >> }
TreeOne == { << P7 >>, << DirA >>, << DirA, P7 >>, << DirA, P7, SUBM >>,
             << P1234 >>, << P1234, SUBM >> }
TreeNone == { << DirA >> }

SolOne == << [name |-> NRef, arr |-> Vec(<< 1, 2, 3 >>)] >>
SolTwo == << [name |-> NAlt, arr |-> Vec(<< 1, 2 >>)],
             [name |-> NRef, arr |-> Vec(<< 1, 2, 3 >>)] >>

EvalSetups == { << TreeBoth, SolOne >>, << TreeOne, SolTwo >>, << TreeNone, SolOne >> }

\* Remote paths
RP7 == P7
RP7Sub == P7 \o << "/" >> \o SUBM
RAP7 == DirA \o << "\\" >> \o P7
RAP7Sub == DirA \o << "\\" >> \o P7 \o << "\\" >> \o SUBM
RP12 == PFX \o << "1", "2" >>
RP1234Sub == P1234 \o << "/" >> \o SUBM

\* A listing with two participants that have a Submissions folder (one under
\* A, with backslashes), one without, and a directory with a fourth digit.
ListingFull ==
  JsonArray(<< ObjPath(RP7), ObjPath(RP7Sub), ObjPath(RAP7), ObjPath(RAP7Sub),
               ObjPath(RP12), ObjPath(RP1234Sub) >>)
\* A listing in which one object has no Path.
ListingMixed == JsonArray(<< ObjPath(RP7), ObjNoPath, ObjPath(RP7Sub) >>)

RemoteOutputs ==
  { JsonInvalid, JsonValue, JsonArray(<< >>), JsonArray(<< ObjNoPath >>),
    JsonArray(<< ObjPath(RP7), Number >>), JsonArray(<< ObjPathNumber, ObjPath(RP7) >>),
    ListingFull, ListingMixed }

CopyOutcomes == { << 0, "" >>, << 1, "not found" >>, << 1, "other" >> }

\* What a copy can bring: Results_7_1.csv, scored, unreadable or one number.
CopiedNames == {N71}
CopiedContents == {FileGoodA, FileText, FileHeaderSingle}

SolutionFile(content) == [dir |-> << SOLUTION >>, name |-> NRef, content |-> content]

\* LOCAL_ROOT at the start: with a solution, without the solution folder, with
\* an unreadable solution, or missing.
CycleSetups ==
  { [root |-> TRUE, dirs |-> {<< SOLUTION >>}, files |-> << SolutionFile(FileGoodA) >>],
    [root |-> TRUE, dirs |-> {}, files |-> << >>],
    [root |-> TRUE, dirs |-> {<< SOLUTION >>}, files |-> << SolutionFile(FileText) >>],
    [root |-> FALSE, dirs |-> {}, files |-> << >>] }

(* ------------------------------------------------------------------ *)
(* State                                                               *)
(* ------------------------------------------------------------------ *)
VARIABLES
  arrA, arrB, score,      \* compute_rmse: its arguments and its result
  dirs, files,            \* the tree under LOCAL_ROOT
  solutions,              \* the loaded solutions
  summaryFile, rankFile,  \* rmse_summary.csv and rmse_ranking.csv
  evalOut,                \* what the last evaluate_participants did
  pc,                     \* where main is
  rootExists,             \* os.path.exists(LOCAL_ROOT)
  listing,                \* exit status and output of the remote listing
  remoteDirs, bases,      \* dirs and participant_bases of run_update_cycle
  copyIdx,                \* the position of its copy loop in bases
  copied, copyRcs,        \* the bases copy_submissions was called for, its exit statuses
  ran,                    \* the steps of the cycle that have run
  absent,                 \* the data-absence condition the cycle met
  wrote,                  \* the output files the cycle wrote
  cycleRet,               \* how run_update_cycle ended
  repoFile,               \* rmse_ranking.csv in the checkout
  git, pushRet,           \* the git commands run, what git_push_updates returned
  log,                    \* the lines logged by the last step
  sleepFor,               \* the argument of the last time.sleep
  interrupted             \* a KeyboardInterrupt has arrived

rmseVars == << arrA, arrB, score >>
treeVars == << dirs, files >>
evalVars == << solutions, summaryFile, rankFile, evalOut >>
remoteVars == << listing, remoteDirs, bases, copyIdx, copied, copyRcs >>
publishVars == << repoFile, git, pushRet >>
cycleVars == << pc, rootExists, remoteVars, ran, absent, wrote, cycleRet, publishVars, log,
                sleepFor, interrupted >>
vars == << rmseVars, treeVars, evalVars, cycleVars >>

Pending == [kind |-> "pending", v |-> << >>]
NotRun == [ret |-> "pending", stats |-> << >>, loaded |-> << >>]

RmseIdle == arrA = NoneVal /\ arrB = NoneVal /\ score = Pending
TreeIdle == dirs = {} /\ files = << >>
EvalIdle == solutions = << >> /\ summaryFile = NoFile /\ rankFile = NoFile /\ evalOut = NotRun

NoListing == [rc |-> 0, out |-> JsonValue]
NoGit == [add |-> "notrun", commit |-> "notrun", push |-> "notrun"]
NothingWritten == [summary |-> FALSE, rank |-> FALSE]

\* The variables of one cycle before the cycle has done anything.
FreshCycle ==
  /\ listing = NoListing
  /\ remoteDirs = << >>
  /\ bases = << >>
  /\ copyIdx = 1
  /\ copied = << >>
  /\ copyRcs = << >>
  /\ ran = {}
  /\ absent = "none"
  /\ wrote = NothingWritten
  /\ cycleRet = "running"
  /\ git = NoGit
  /\ pushRet = "none"
  /\ log = << >>

\* The same variables reset for the next cycle.
ResetCycle ==
  /\ listing' = NoListing
  /\ remoteDirs' = << >>
  /\ bases' = << >>
  /\ copyIdx' = 1
  /\ copied' = << >>
  /\ copyRcs' = << >>
  /\ ran' = {}
  /\ absent' = "none"
  /\ wrote' = NothingWritten
  /\ cycleRet' = "running"
  /\ git' = NoGit
  /\ pushRet' = "none"
  /\ log' = << >>

CycleIdle ==
  /\ pc = "off"
  /\ rootExists = TRUE
  /\ FreshCycle
  /\ repoFile = NoFile
  /\ sleepFor = 0
  /\ interrupted = FALSE

(* ------------------------------------------------------------------ *)
(* SpecRmse: compute_rmse on bounded arguments                         *)
(* ------------------------------------------------------------------ *)
RECURSIVE SeqsUpTo(_, _)
SeqsUpTo(S, n) ==
  IF n = 0 THEN {<< >>}
  ELSE LET shorter == SeqsUpTo(S, n - 1)
       IN shorter \cup {Append(q, x) : q \in shorter, x \in S}

Arrays == {NoneVal} \cup {Vec(q) : q \in SeqsUpTo(0..MaxVal, MaxLen)}

InitRmse ==
  /\ arrA \in Arrays
  /\ arrB \in Arrays
  /\ score = Pending
  /\ TreeIdle
  /\ EvalIdle
  /\ CycleIdle

ComputeRmse ==
  /\ score = Pending
  /\ score' = compute_rmse(arrA, arrB)
  /\ UNCHANGED << arrA, arrB, treeVars, evalVars, cycleVars >>

NextRmse == ComputeRmse

SpecRmse == InitRmse /\ [][NextRmse]_vars

(* ------------------------------------------------------------------ *)
(* SpecEval / SpecLoad: evaluate_participants on bounded trees         *)
(* ------------------------------------------------------------------ *)
InitEval ==
  /\ RmseIdle
  /\ CycleIdle
  /\ \E setup \in EvalSetups : dirs = setup[1] /\ solutions = setup[2]
  /\ files = << >>
  /\ summaryFile = NoFile
  /\ rankFile = NoFile
  /\ evalOut = NotRun

\* The outcome of evaluate_participants, kept in the state.
StoreOutcome(out) ==
  /\ evalOut' = [ret |-> out.ret, stats |-> out.stats, loaded |-> out.loaded]
  /\ summaryFile' = out.summaryFile
  /\ rankFile' = out.rankFile

\* A file appears in a Submissions folder (listing order: order of arrival).
PutFileFrom(names, contents) ==
  /\ evalOut = NotRun
  /\ Len(files) < MaxFiles
  /\ \E d \in {e \in dirs : e[Len(e)] = SUBM}, n \in names, c \in contents :
        /\ \A i \in 1..Len(files) : ~(files[i].dir = d /\ files[i].name = n)
        /\ files' = Append(files, [dir |-> d, name |-> n, content |-> c])
  /\ UNCHANGED << rmseVars, dirs, evalVars, cycleVars >>

PutFile == PutFileFrom(AllNames, ScoredContents)
PutWellNamedFile == PutFileFrom(WellFormedNames, AllContents)

Evaluate ==
  /\ pc = "off"
  /\ evalOut = NotRun
  /\ \E sumOK \in BOOLEAN, rankOK \in BOOLEAN, scan \in {ScanTree(solutions, dirs, files)} :
        \E out \in {FinishEvaluate(scan, dirs, summaryFile, rankFile, sumOK, rankOK)} :
           StoreOutcome(out)
  /\ UNCHANGED << rmseVars, treeVars, solutions, cycleVars >>

NextEval == PutFile \/ Evaluate
SpecEval == InitEval /\ [][NextEval]_vars

NextLoad == PutWellNamedFile \/ Evaluate
SpecLoad == InitEval /\ [][NextLoad]_vars

(* ------------------------------------------------------------------ *)
(* Spec: main and run_update_cycle, step by step                       *)
(* ------------------------------------------------------------------ *)
Init ==
  /\ RmseIdle
  /\ \E setup \in CycleSetups :
        /\ rootExists = setup.root
        /\ dirs = setup.dirs
        /\ files = setup.files
  /\ EvalIdle
  /\ pc = "start"
  /\ FreshCycle
  /\ repoFile = NoFile
  /\ sleepFor = 0
  /\ interrupted = FALSE

\* run_update_cycle returns False: main sleeps the hour.
ReturnFalse ==
  /\ cycleRet' = "False"
  /\ pc' = "sleep"
  /\ sleepFor' = SleepAfter(FALSE)

\* The start of run_update_cycle: LOCAL_ROOT must exist.
StartCycle ==
  /\ pc = "start"
  /\ IF rootExists
     THEN /\ pc' = "list"
          /\ log' = << "cycle_start" >>
          /\ UNCHANGED << cycleRet, sleepFor >>
     ELSE /\ ReturnFalse
          /\ log' = << "cycle_start", "root_missing" >>
  /\ UNCHANGED << rmseVars, treeVars, evalVars, rootExists, remoteVars, ran, absent, wrote,
                  publishVars, interrupted >>

\* dirs = get_all_remote_dirs(); not dirs: return False; else the bases.
ListRemote ==
  /\ pc = "list"
  /\ \E rc \in {0, 1}, out \in RemoteOutputs :
        \E found \in {get_all_remote_dirs(rc, out)} :
        \E participant_bases \in {find_participant_bases(found)} :
           /\ listing' = [rc |-> rc, out |-> out]
           /\ remoteDirs' = found
           /\ IF Len(found) = 0
              THEN /\ ReturnFalse
                   /\ log' = << "listing", "no_directories" >>
                   /\ UNCHANGED bases
              ELSE /\ bases' = participant_bases
                   /\ pc' = IF Len(participant_bases) = 0 THEN "load" ELSE "copy"
                   /\ log' = << "listing", "bases_found" >>
                   /\ UNCHANGED << cycleRet, sleepFor >>
  /\ ran' = ran \cup {"list"}
  /\ UNCHANGED << rmseVars, treeVars, evalVars, rootExists, copyIdx, copied, copyRcs, absent,
                  wrote, publishVars, interrupted >>

\* The copy loop at a base whose Submissions folder is not in the listing.
SkipBase ==
  /\ pc = "copy"
  /\ ~HasSubmissions(bases[copyIdx], remoteDirs)
  /\ copyIdx' = copyIdx + 1
  /\ pc' = AfterCopy(0, copyIdx, Len(bases))
  /\ log' = << >>
  /\ UNCHANGED << rmseVars, treeVars, evalVars, rootExists, listing, remoteDirs, bases, copied,
                  copyRcs, ran, absent, wrote, cycleRet, publishVars, sleepFor, interrupted >>

SubmissionFiles == SelectSeq(files, LAMBDA f : f.dir # << SOLUTION >>)

\* copy_submissions(base): a copy that succeeds creates the local folder and
\* may bring a new file.
CopySubmissions ==
  /\ pc = "copy"
  /\ HasSubmissions(bases[copyIdx], remoteDirs)
  /\ \E outcome \in CopyOutcomes :
        LET rc == outcome[1]
            local_sub == LocalSub(bases[copyIdx])
        IN /\ copied' = Append(copied, bases[copyIdx])
           /\ copyRcs' = Append(copyRcs, rc)
           /\ log' = CopyLog(rc, outcome[2])
           /\ pc' = AfterCopy(rc, copyIdx, Len(bases))
           /\ IF rc = 0
              THEN /\ dirs' = dirs \cup WithParents(local_sub)
                   /\ \/ UNCHANGED files
                      \/ /\ Len(SubmissionFiles) < MaxCopied
                         /\ \E n \in CopiedNames, c \in CopiedContents :
                               /\ \A i \in 1..Len(files) :
                                     ~(files[i].dir = local_sub /\ files[i].name = n)
                               /\ files' = Append(files,
                                                  [dir |-> local_sub, name |-> n, content |-> c])
              ELSE UNCHANGED << dirs, files >>
  /\ copyIdx' = copyIdx + 1
  /\ UNCHANGED << rmseVars, evalVars, rootExists, listing, remoteDirs, bases, ran, absent, wrote,
                  cycleRet, publishVars, sleepFor, interrupted >>

\* solutions = load_solutions(SOLUTION_DIR); not solutions: return False.
LoadSolutions ==
  /\ pc = "load"
  /\ \E loaded \in {load_solutions(dirs, files)} :
        /\ solutions' = loaded
        /\ IF Len(loaded) = 0
           THEN /\ ReturnFalse
                /\ absent' = "no_solutions"
                /\ log' = << "solutions_loaded", "no_solutions" >>
           ELSE /\ pc' = "evaluate"
                /\ log' = << "solutions_loaded" >>
                /\ UNCHANGED << cycleRet, sleepFor, absent >>
  /\ ran' = ran \cup {"load"}
  /\ UNCHANGED << rmseVars, treeVars, summaryFile, rankFile, evalOut, rootExists, remoteVars,
                  wrote, publishVars, interrupted >>

\* run_update_cycle after evaluate_participants has returned or raised.
AfterEvaluate(ret, sumOK, rankOK) ==
  /\ wrote' = [summary |-> ret = "stats" /\ sumOK, rank |-> ret = "stats" /\ rankOK]
  /\ absent' = IF ret = "none" THEN "no_participants"
               ELSE IF ret = "empty" THEN "no_scores" ELSE "none"
  /\ IF ret = "raise"
     THEN /\ pc' = AfterException
          /\ cycleRet' = "raised"
          /\ sleepFor' = SleepAfter(TRUE)
          /\ log' = << "unexpected_error" >>
     ELSE /\ pc' = "publish"
          /\ log' = IF ret = "none" THEN << "no_participants" >>
                    ELSE IF ret = "empty" THEN << "no_valid_submissions" >>
                    ELSE << "ranking_built" >>
          /\ UNCHANGED << cycleRet, sleepFor >>

\* evaluate_participants(...): its return value is not looked at; an exception
\* leaves run_update_cycle and is caught in main, which logs it and sleeps
\* five minutes.
EvaluateStep ==
  /\ pc = "evaluate"
  /\ \E sumOK \in BOOLEAN, rankOK \in BOOLEAN, scan \in {ScanTree(solutions, dirs, files)} :
        \E out \in {FinishEvaluate(scan, dirs, summaryFile, rankFile, sumOK, rankOK)} :
           /\ StoreOutcome(out)
           /\ AfterEvaluate(out.ret, sumOK, rankOK)
  /\ ran' = ran \cup {"evaluate"}
  /\ UNCHANGED << rmseVars, treeVars, solutions, rootExists, remoteVars, publishVars,
                  interrupted >>

\* What git_push_updates did, kept in the state.
StorePublish(r) ==
  /\ repoFile' = IF r.copied THEN rankFile ELSE repoFile
  /\ git' = r.git
  /\ pushRet' = r.ret
  /\ log' = r.log

\* git_push_updates(), then run_update_cycle returns True.
Publish ==
  /\ pc = "publish"
  /\ \E repoExists \in BOOLEAN, addRc \in {0, 1}, commit \in {"ok", "nothing", "fail"},
        pushRc \in {0, 1} :
        StorePublish(git_push_updates(repoExists, rankFile.exists, addRc, commit, pushRc))
  /\ ran' = ran \cup {"publish"}
  /\ cycleRet' = "True"
  /\ pc' = "sleep"
  /\ sleepFor' = SleepAfter(FALSE)
  /\ UNCHANGED << rmseVars, treeVars, evalVars, rootExists, remoteVars, absent, wrote,
                  interrupted >>

\* time.sleep returns: the next pass of while True.
Wake ==
  /\ pc \in {"sleep", "backoff"}
  /\ pc' = "start"
  /\ ResetCycle
  /\ solutions' = << >>
  /\ evalOut' = NotRun
  /\ UNCHANGED << rmseVars, treeVars, summaryFile, rankFile, rootExists, repoFile, sleepFor,
                  interrupted >>

\* KeyboardInterrupt: caught in the loop (break), or leaving main from the
\* sleep of the exception handler.
Interrupt ==
  /\ pc \in {"start", "list", "copy", "load", "evaluate", "publish", "sleep", "backoff"}
  /\ pc' = "stopped"
  /\ interrupted' = TRUE
  /\ log' = IF pc = "backoff" THEN << >> ELSE << "stopped_by_user" >>
  /\ UNCHANGED << rmseVars, treeVars, evalVars, rootExists, remoteVars, ran, absent, wrote,
                  cycleRet, publishVars, sleepFor >>

Run ==
  \/ StartCycle
  \/ ListRemote
  \/ SkipBase
  \/ CopySubmissions
  \/ LoadSolutions
  \/ EvaluateStep
  \/ Publish
  \/ Wake

Next == Run \/ Interrupt

Spec == Init /\ [][Next]_vars

\* The interpreter keeps running the one thread, and every sleep ends.
FairSpec == Spec /\ WF_vars(Run)

(* ------------------------------------------------------------------ *)
(* Properties of compute_rmse (SpecRmse)                               *)
(* ------------------------------------------------------------------ *)
Prefix(arr, k) == Vec(SubSeq(arr.v, 1, k))

\* C9: scoring truncates to the shorter length.  For non-empty a and b and
\* k = min(len(a), len(b)) the score of (a, b) is the score of (a[:k], b[:k]),
\* computed over the first k elements of each in order; and the result is None
\* exactly when an argument is None or has length 0.
C9_TruncatesToShorter ==
  score # Pending =>
    /\ (score = NoneVal) <=>
         (arrA = NoneVal \/ arrB = NoneVal \/ Len(arrA.v) = 0 \/ Len(arrB.v) = 0)
    /\ (Len(arrA.v) > 0 /\ Len(arrB.v) > 0) =>
         LET k == Min(Len(arrA.v), Len(arrB.v))
         IN /\ score = compute_rmse(Prefix(arrA, k), Prefix(arrB, k))
            /\ score = Score(SumSq(arrA.v, arrB.v, k), k)

\* C9 witness: a score of two arguments of different lengths where the
\* elements cut off differ from the ones kept.
C9_Witness ==
  /\ score.kind = "rmse"
  /\ Len(arrA.v) = 3
  /\ Len(arrB.v) = 2
  /\ arrA.v[3] # arrA.v[1]
  /\ score.v[1] > 0

(* ------------------------------------------------------------------ *)
(* Properties of evaluate_participants (SpecEval, SpecLoad)            *)
(* ------------------------------------------------------------------ *)
\* The file lies in the Submissions folder of a participant directory.
InParticipantFolder(f) ==
  /\ Len(f.dir) >= 2
  /\ f.dir[Len(f.dir)] = SUBM
  /\ PART_REGEX(f.dir[Len(f.dir) - 1])

ParticipantPathOf(f) == PathStr(SubSeq(f.dir, 1, Len(f.dir) - 1))

\* The file has an entry among the scored submissions.
InStats(f) ==
  \E k \in 1..Len(evalOut.stats) :
     /\ evalOut.stats[k].participant_path = ParticipantPathOf(f)
     /\ evalOut.stats[k].file = f.name

InRanking(f) ==
  \E k \in 1..Len(rankFile.rows) :
     /\ rankFile.rows[k].Pfad = ParticipantPathOf(f)
     /\ rankFile.rows[k].Filename = f.name

WasLoaded(f) ==
  \E k \in 1..Len(evalOut.loaded) :
     evalOut.loaded[k] = << ParticipantPathOf(f), f.name >>

\* The content yields a numeric sequence with at least one element.
Usable(content) ==
  LET arr == load_numeric_file(content) IN arr.kind = "vec" /\ Len(arr.v) > 0

\* C1: a submission file that cannot be turned into a usable numeric sequence
\* never aborts the run: evaluate_participants does not raise, the file is left
\* out of the scoring, and every usable submission is scored.
C1_BadFileNeverAborts ==
  evalOut.ret # "pending" =>
    /\ evalOut.ret # "raise"
    /\ \A i \in 1..Len(files) :
          (InParticipantFolder(files[i])
             /\ parse_submission_filename(files[i].name) # NoMatch)
          => (Usable(files[i].content) <=> InStats(files[i]))

\* C3: the ranking written is the stable ascending sort of the scored
\* submissions by RMSE: ranks 1..n without gaps or repeats, one row per scored
\* submission, RMSE non-decreasing with the rank, and of two submissions with
\* equal RMSE the one discovered first has the lower rank.
StatsPos(row) ==
  CHOOSE k \in 1..Len(evalOut.stats) :
     /\ evalOut.stats[k].participant_path = row.Pfad
     /\ evalOut.stats[k].file = row.Filename

StrictName(fname) ==
  \E i \in 1..Len(fname), j \in 1..Len(fname) :
     /\ SubSeq(LowerStr(fname), 1, Len(RESLOW)) = RESLOW
     /\ i > Len(RESLOW)
     /\ \A k \in (Len(RESLOW) + 1)..i : fname[k] \in Digits
     /\ i + 1 < j
     /\ fname[i + 1] = "_"
     /\ \A k \in (i + 2)..j : fname[k] \in Digits
     /\ SubSeq(LowerStr(fname), j + 1, Len(fname)) = CSVLOW

\* C4: a file whose whole name is not of the form Results_<digits>_<digits>.csv
\* (case-insensitively) is left out: parse_submission_filename returns
\* (None, None), it is never loaded and has no row in the ranking.
C4_NonMatchingNamesExcluded ==
  evalOut.ret # "pending" =>
    \A i \in 1..Len(files) :
       (InParticipantFolder(files[i]) /\ ~StrictName(files[i].name)) =>
          /\ parse_submission_filename(files[i].name) = NoMatch
          /\ ~WasLoaded(files[i])
          /\ ~InRanking(files[i])

\* The digits of the PARTICIPANT_<digits> directory of a path.
DirDigits(path) ==
  LET b == BaseName(path) IN SubSeq(b, Len(PFX) + 1, Len(b))

\* The digit groups of a file name that begins Results_<digits>_<digits>.
FirstGroup(fname) == SubSeq(fname, Len(RESLOW) + 1, DigitRunEnd(fname, Len(RESLOW) + 1))
SecondGroup(fname) ==
  LET e1 == DigitRunEnd(fname, Len(RESLOW) + 1)
  IN SubSeq(fname, e1 + 2, DigitRunEnd(fname, e1 + 2))

\* C10 as stated: every row carries the digits of the directory the file was
\* found under, as Participant_ID and in Submission_ID, and no two rows share a
\* Submission_ID.
C10_RowsIdentifyDirectory ==
  rankFile.exists =>
    LET rows == rankFile.rows
    IN /\ \A i \in 1..Len(rows) :
             /\ rows[i].Participant_ID = DirDigits(rows[i].Pfad)
             /\ \E num \in 0..99 :
                   rows[i].Submission_ID = SubmissionId(DirDigits(rows[i].Pfad), num)
       /\ \A i \in 1..Len(rows) : \A j \in 1..Len(rows) :
             i # j => rows[i].Submission_ID # rows[j].Submission_ID

\* C10 amended: every row carries the digits of the file's own name: the first
\* group as Participant_ID and in Submission_ID, the second as Submission_Num;
\* its Pfad is the PARTICIPANT_<digits> directory whose Submissions folder holds
\* the file; and no two rows share both Pfad and Filename.
C10_RowsIdentifyFileName ==
  rankFile.exists =>
    LET rows == rankFile.rows
    IN /\ \A i \in 1..Len(rows) :
             /\ rows[i].Participant_ID = FirstGroup(rows[i].Filename)
             /\ rows[i].Submission_Num = ToInt(SecondGroup(rows[i].Filename))
             /\ rows[i].Submission_ID =
                  SubmissionId(FirstGroup(rows[i].Filename), rows[i].Submission_Num)
             /\ PART_REGEX(BaseName(rows[i].Pfad))
             /\ \E k \in 1..Len(files) :
                   /\ files[k].dir = Split(rows[i].Pfad, "\\") \o << SUBM >>
                   /\ files[k].name = rows[i].Filename
       /\ \A i \in 1..Len(rows) : \A j \in 1..Len(rows) :
             i # j => << rows[i].Pfad, rows[i].Filename >> # << rows[j].Pfad, rows[j].Filename >>

\* C10 witness: a ranking with a row whose Participant_ID is not the digits of
\* its directory.
C10_Witness ==
  /\ rankFile.exists
  /\ \E i \in 1..Len(rankFile.rows) :
        rankFile.rows[i].Participant_ID # DirDigits(rankFile.rows[i].Pfad)

(* ------------------------------------------------------------------ *)
(* Properties of run_update_cycle and main (Spec, FairSpec)            *)
(* ------------------------------------------------------------------ *)
\* C2: in a cycle that meets a data-absence condition (no solution loads, no
\* participant directory, no submission scored) no later step runs: no output
\* file is written and the publish step is not invoked.
C2_DataAbsenceAbortsCycle ==
  absent # "none" =>
    /\ ~wrote.summary
    /\ ~wrote.rank
    /\ "publish" \notin ran
    /\ (absent = "no_solutions" => "evaluate" \notin ran)

\* The output is a JSON array of objects that each have a Path.
WellFormedListing(out) ==
  /\ out.kind = "array"
  /\ \A i \in 1..Len(out.items) : out.items[i].t = "obj" /\ out.items[i].hasPath

\* The cycle ended right after the listing: nothing copied, no solution
\* loaded, nothing evaluated, written or published, and False returned.
AbortedAfterListing ==
  /\ remoteDirs = << >>
  /\ cycleRet = "False"
  /\ ran = {"list"}
  /\ copied = << >>
  /\ wrote = NothingWritten
  /\ evalOut = NotRun
  /\ git = NoGit
  /\ pc \in {"sleep", "stopped"}

ListingFailed(l) ==
  \/ l.rc # 0
  \/ l.out.kind # "array"
  \/ \E i \in 1..Len(l.out.items) :
        \/ l.out.items[i].t # "obj"
        \/ (l.out.items[i].hasPath /\ ~l.out.items[i].pathIsStr)

CopyTargets(bs) == SelectSeq(bs, LAMBDA b : HasSubmissions(b, remoteDirs))

\* C6: a failed copy (any non-zero exit) does not end the cycle: the copy is
\* still tried for every base whose Submissions folder is listed, in sorted
\* order, and the cycle then loads the solutions and, if any loaded, evaluates.
C6_CopyFailureDoesNotAbort ==
  (\E i \in 1..Len(copyRcs) : copyRcs[i] # 0) =>
    /\ \A i \in 1..Len(bases) : \A j \in (i + 1)..Len(bases) : StrLess(bases[i], bases[j])
    /\ pc = "copy" => copied = CopyTargets(SubSeq(bases, 1, copyIdx - 1))
    /\ pc \in {"load", "evaluate", "publish", "sleep", "backoff"} => copied = CopyTargets(bases)
    /\ pc \in {"evaluate", "publish", "sleep", "backoff"} => "load" \in ran
    /\ (pc \in {"publish", "sleep", "backoff"} /\ Len(solutions) > 0) => "evaluate" \in ran

\* C6 witness: the first copy failed, a second one was tried and the cycle
\* has evaluated.
C6_Witness ==
  /\ Len(copyRcs) >= 2
  /\ copyRcs[1] # 0
  /\ "evaluate" \in ran

\* C7: every failure of git add, git commit or git push (other than a commit
\* with nothing to commit) makes git_push_updates log an error and return
\* False, never log a successful push, and leave LOCAL_ROOT/rmse_ranking.csv
\* as it was.
C7_PublishFailureReported ==
  [][(pc = "publish" /\ pc' = "sleep"
        /\ (git'.add = "fail" \/ git'.commit = "fail" \/ git'.push = "fail"))
      => /\ pushRet' = "False"
         /\ \E i \in 1..Len(log') : log'[i] \in {"git_error", "push_failed"}
         /\ \A i \in 1..Len(log') : log'[i] # "pushed"
         /\ rankFile' = rankFile]_vars

\* C8: the loop of main stops on an interrupt only.  An exception of a cycle
\* is caught and logged, main then sleeps 300 s and not 3600 s and starts
\* another cycle; unless interrupted, a next cycle is always started again.
C8_LoopStopsOnlyOnInterrupt ==
  /\ [](pc = "stopped" => interrupted)
  /\ []((evalOut.ret = "raise" /\ ~interrupted) =>
          (pc = "backoff" /\ cycleRet = "raised" /\ sleepFor = ErrorSleep
             /\ log = << "unexpected_error" >>))
  /\ [](pc = "sleep" => (cycleRet \in {"True", "False"} /\ sleepFor = NormalSleep))
  /\ [][pc = "backoff" => pc' \in {"backoff", "start", "stopped"}]_vars
  /\ []<>(pc = "start" \/ interrupted)

\* C8 witness: a cycle starts after the short sleep that follows an exception.
C8_Witness ==
  /\ pc = "start"
  /\ sleepFor = ErrorSleep
  /\ ~interrupted

====
